---- MODULE Spec2Model ----
(***************************************************************************)
(* GSAP Live Animation Debugger (gsap-debugger-webflow.js, v1.0.5).        *)
(* One page load of the script: the activation gate, the library probe,    *)
(* the patch of the library's entry points, the three registries, the      *)
(* event snapshot and the presentation shell.  The host library (gsap,     *)
(* ScrollTrigger), the page's own code and the user are the environment.   *)
(***************************************************************************)
EXTENDS Integers, Sequences, FiniteSets, TLC

\* ---------------------------------------------------------------- bounds
MaxLoads == 2       \* page loads in one behaviour
MaxProbes == 2      \* probe attempts that find no library
MaxObjs == 2        \* tweens and timelines the page constructs in one load
MaxTriggers == 1    \* scroll triggers the page creates in one load
MaxHooks == 2       \* hook sets installed on one trigger

\* ------------------------------------------------ JS objects as functions
\* A JS object is a function from its own keys to their values; {} is the
\* function with the empty domain.
EmptyObj == [k \in {} |-> 0]

Put(m, k, v) == [x \in DOMAIN m \cup {k} |-> IF x = k THEN v ELSE m[x]]

Del(m, k) == [x \in DOMAIN m \ {k} |-> m[x]]

Restrict(m, S) == [x \in DOMAIN m \cap S |-> m[x]]

\* Object.assign(target, source) and {...a, ...b}: the later object wins.
Assign(target, source) == source @@ target

\* ------------------------------------------------------- activation gate
NoValue == "<null>"   \* getItem / URLSearchParams.get of a missing key

DEBUGGER_PARAM == "gsapdbug"

LOCAL_STORAGE_KEY == "gsapDebuggerEnabled"

\* Values the persisted key and the query parameter are drawn from.
StorageValues == {NoValue, "true", "false", "1"}

QueryValues == {NoValue, "true", "false", "1"}

\* localStorage.setItem(key, <boolean>) stores the boolean's string form.
SetItemAsNumber(b) == IF b THEN "1" ELSE "0"

SetItem(b) == IF b THEN "true" ELSE "false"

\* localStorage.getItem(LOCAL_STORAGE_KEY) === 'true'
StoredEnabled(st) == st = "true"

\* urlParams.get(DEBUGGER_PARAM) === 'true'
ParamEnabledTruthy(q) == q # "false"

ParamEnabled(q) == q = "true"

\* urlParams.has(DEBUGGER_PARAM)
HasParam(q) == q # NoValue

\* debuggerEnabled at the end of the gate.
GateEnabled(st, q) == IF HasParam(q) THEN ParamEnabled(q) ELSE StoredEnabled(st)

\* The persisted value at the end of the gate.
GateStorageNoWrite(st, q) == st

GateStorage(st, q) == IF HasParam(q) THEN SetItem(GateEnabled(st, q)) ELSE st

\* --------------------------------------------------------- the library
Methods == {"to", "from", "fromTo", "set", "timeline"}

CbTypes == {"onUpdate", "onComplete", "onReverseComplete"}

\* The argument lists the page calls each entry point with (fromTo has one
\* argument more than the others, timeline has no target).
UserCbs == [onUpdate |-> "user", onComplete |-> "user", onReverseComplete |-> "user"]

ArgsOf(m) ==
    CASE m = "to" ->
           { <<"#box", [duration |-> 2, ease |-> "power2", x |-> 100] @@ UserCbs>> }
      [] m = "from" -> { <<"#box", [duration |-> 1, ease |-> "none", opacity |-> 0]>> }
      [] m = "fromTo" -> { <<"#box", [x |-> 0], [duration |-> 1, x |-> 100]>> }
      [] m = "set" -> { <<"#box", [x |-> 0]>> }
      [] m = "timeline" -> { <<[id |-> "intro", onStart |-> "user"] @@ UserCbs>> }

\* The vars of the object the library builds from an argument list: the
\* last argument (the 'to' vars of fromTo).
VarsOf(args) == args[Len(args)]

KindOf(m) == IF m = "timeline" THEN "timeline" ELSE "tween"

\* Values gsap.getProperty(target, prop) returns at an update notification.
LiveValues == {50}

\* animation.eventCallback(type, fn): the object holds one callback per
\* event type, kept in its vars; setting one replaces what was there.
EventCallback(vars, type, fn) == Put(vars, type, fn)

\* The callback the library invokes for an event of an object.
Invoked(o, type) == IF type \in DOMAIN o.vars THEN o.vars[type] ELSE "none"

VARIABLES
    storage,            \* localStorage[LOCAL_STORAGE_KEY]
    query,              \* value of the gsapdbug parameter of the page's URL
    loads,              \* page loads so far
    prevQuery,          \* the gsapdbug parameter of the previous page load
    debuggerEnabled,
    domListener,        \* the DOMContentLoaded listener is registered
    domLoaded,          \* DOMContentLoaded has fired
    probeTimer,         \* a setTimeout(initializeDebugger) is pending
    probes,             \* probe attempts that found no library
    stylesInjected,     \* the <style id="gsap-debugger-styles"> tag exists
    gsapPresent,        \* typeof window.gsap === 'object'
    stPresent,          \* typeof window.ScrollTrigger === 'function'
    gsapTable,          \* per entry point: number of wrappers around the library's function
    originals,          \* per entry point: what originalTo, ... captured (same measure)
    ui,                 \* the overlay: EmptyObj before createDebuggerUI
    scanTimer,          \* setInterval(<trigger scan>, 500) is installed
    listeners,          \* the window event listeners are installed
    renderTimer,        \* setInterval(updateDisplay, 100) is installed
    keydownListener,    \* the keyboard chord listener is installed
    initError,          \* initializeDebugger ended in an uncaught exception
    objs,               \* the tweens and timelines of the library, in creation order
    activeAnimations,
    activeTimelines,
    activeScrollTriggers,
    eventData,
    triggers,           \* ScrollTrigger.getAll(): per trigger its live state
    hooks               \* per trigger: hook sets installed on it

gateVars == <<storage, query, loads, prevQuery, debuggerEnabled, domListener>>

probeVars == <<domLoaded, probeTimer, probes, stylesInjected>>

libVars == <<gsapPresent, stPresent, gsapTable, objs, triggers>>

initVars == <<originals, ui, scanTimer, listeners, renderTimer, keydownListener, initError>>

dataVars == <<activeAnimations, activeTimelines, activeScrollTriggers, eventData, hooks>>

vars == <<gateVars, probeVars, libVars, initVars, dataVars>>

Unpatched == [m \in Methods |-> 0]

\* The page-local state of a freshly loaded document, before the script runs.
FreshPage ==
    /\ domLoaded = FALSE /\ probeTimer = FALSE /\ probes = 0 /\ stylesInjected = FALSE
    /\ gsapPresent = FALSE /\ stPresent = FALSE
    /\ gsapTable = Unpatched /\ originals = EmptyObj
    /\ objs = <<>> /\ triggers = <<>>
    /\ ui = EmptyObj
    /\ scanTimer = FALSE /\ listeners = FALSE /\ renderTimer = FALSE
    /\ keydownListener = FALSE /\ initError = FALSE
    /\ activeAnimations = EmptyObj /\ activeTimelines = EmptyObj
    /\ activeScrollTriggers = EmptyObj /\ eventData = EmptyObj /\ hooks = <<>>

\* The script's top level (the IIFE up to its early return).
RunGate(st, q) ==
    /\ query = q
    /\ debuggerEnabled = GateEnabled(st, q)
    /\ storage = GateStorage(st, q)
    /\ domListener = GateEnabled(st, q)

Init ==
    /\ loads = 1
    /\ prevQuery = NoValue
    /\ \E st \in StorageValues, q \in QueryValues : RunGate(st, q)
    /\ FreshPage

\* A navigation: the document is replaced and the script runs again; only
\* localStorage survives.
LoadPage ==
    /\ loads < MaxLoads
    /\ loads' = loads + 1
    /\ prevQuery' = query
    /\ \E q \in QueryValues :
          /\ query' = q
          /\ debuggerEnabled' = GateEnabled(storage, q)
          /\ storage' = GateStorage(storage, q)
          /\ domListener' = GateEnabled(storage, q)
    /\ domLoaded' = FALSE /\ probeTimer' = FALSE /\ probes' = 0 /\ stylesInjected' = FALSE
    /\ gsapPresent' = FALSE /\ stPresent' = FALSE
    /\ gsapTable' = Unpatched /\ originals' = EmptyObj
    /\ objs' = <<>> /\ triggers' = <<>>
    /\ ui' = EmptyObj
    /\ scanTimer' = FALSE /\ listeners' = FALSE /\ renderTimer' = FALSE
    /\ keydownListener' = FALSE /\ initError' = FALSE
    /\ activeAnimations' = EmptyObj /\ activeTimelines' = EmptyObj
    /\ activeScrollTriggers' = EmptyObj /\ eventData' = EmptyObj /\ hooks' = <<>>

\* The browser fires DOMContentLoaded once; the listener, if the gate
\* registered one, schedules the first probe.
DomContentLoaded ==
    /\ ~domLoaded
    /\ domLoaded' = TRUE
    /\ probeTimer' = domListener
    /\ UNCHANGED <<probes, stylesInjected, gateVars, libVars, initVars, dataVars>>

\* The page's scripts define window.gsap.
LibraryLoads ==
    /\ ~gsapPresent
    /\ gsapPresent' = TRUE
    /\ UNCHANGED <<stPresent, gsapTable, objs, triggers,
                   gateVars, probeVars, initVars, dataVars>>

\* The page's scripts define window.ScrollTrigger.
ExtensionLoads ==
    /\ gsapPresent /\ ~stPresent
    /\ stPresent' = TRUE
    /\ UNCHANGED <<gsapPresent, gsapTable, objs, triggers,
                   gateVars, probeVars, initVars, dataVars>>

\* ------------------------------------------------------ presentation shell
\* The content of one of the four section elements: its heading, the lines
\* directly under the heading, and one block per listed object, a block being
\* modelled by the set of its lines (the order of blocks and of lines, which
\* is the insertion order of the Map and of the object's keys, is left out).
\* A section the markup has just created is empty.
EmptySection == [heading |-> "", lines |-> {}, blocks |-> [k \in {} |-> {}]]

\* The overlay as createDebuggerUI's markup builds it, with the marker
\* checkbox as the code after the markup leaves it.
NewUI(scrollTriggerAvailable) ==
    [ buttonText |-> "ON", buttonClass |-> "", display |-> "",
      checked |-> [animations |-> TRUE, timelines |-> TRUE,
                   scrolltriggers |-> TRUE, events |-> FALSE],
      sectionDisplay |-> [animations |-> "", timelines |-> "",
                          scrolltriggers |-> "", events |-> ""],
      markerDisabled |-> ~scrollTriggerAvailable,
      markerTitle |-> IF scrollTriggerAvailable THEN "" ELSE "ScrollTrigger not available",
      animationDiv |-> EmptySection, timelineDiv |-> EmptySection,
      scrollTriggerDiv |-> EmptySection, eventsDiv |-> EmptySection ]

UpdateToggleButton(u, enabled) ==
    [u EXCEPT !.buttonText = IF enabled THEN "ON" ELSE "OFF",
              !.buttonClass = IF enabled THEN "on" ELSE "off",
              !.display = IF enabled THEN "flex" ELSE "none"]

\* The rule of the injected style sheet for the overlay's display:
\* '#gsap-debugger-overlay { display: flex !important; }'.
OverlayDisplayRule == [value |-> "flex", important |-> TRUE]

\* The overlay's computed display: in the cascade an !important declaration
\* of a style sheet wins over the element's inline style (which
\* updateToggleButton sets without !important); without the style sheet the
\* inline style decides, and a <div> without one is a block.
ComputedDisplay(u, injected) ==
    IF injected /\ OverlayDisplayRule.important THEN OverlayDisplayRule.value
    ELSE IF u.display = "" THEN "block" ELSE u.display

\* ---------------------------------------------------------- library probe
\* Whether initializeDebugger schedules itself again.
RescheduleAlways(gsapAvailable) == TRUE

RescheduleNever(gsapAvailable) == FALSE

Reschedule(gsapAvailable) == ~gsapAvailable

\* initializeDebugger without the library: retry in 200 ms.
ProbeRetry ==
    /\ probeTimer /\ ~gsapPresent
    /\ probes < MaxProbes
    /\ probes' = probes + 1
    /\ stylesInjected' = TRUE
    /\ probeTimer' = Reschedule(gsapPresent)
    /\ UNCHANGED <<domLoaded, gateVars, libVars, initVars, dataVars>>

\* The forEach over ScrollTrigger.getAll() calls monitorScrollTrigger, a
\* const declared further down: with at least one trigger it throws.
InitThrowsWithoutExtension(scrollTriggerAvailable, n) == ~scrollTriggerAvailable \/ n > 0

InitThrows(scrollTriggerAvailable, n) == scrollTriggerAvailable /\ n > 0

\* The scan timer as if it were installed whatever the sample said.
ScanInstalledAlways(scrollTriggerAvailable, throws) == ~throws

\* if (scrollTriggerAvailable) { ... setInterval(scan, 500) }: the scan timer
\* is installed when the extension was there at the sample and the initial
\* pass over the existing triggers did not throw.
ScanInstalled(scrollTriggerAvailable, throws) == scrollTriggerAvailable /\ ~throws

\* initializeDebugger with the library: the whole initialization.
ProbeInit ==
    /\ probeTimer /\ gsapPresent
    /\ stylesInjected' = TRUE
    /\ probeTimer' = Reschedule(gsapPresent)
    /\ LET scrollTriggerAvailable == gsapPresent /\ stPresent
           throws == InitThrows(scrollTriggerAvailable, Len(triggers))
       IN /\ ui' = UpdateToggleButton(NewUI(scrollTriggerAvailable), debuggerEnabled)
          /\ activeAnimations' = EmptyObj /\ activeTimelines' = EmptyObj
          /\ activeScrollTriggers' = EmptyObj /\ eventData' = EmptyObj
          /\ originals' = gsapTable
          /\ gsapTable' = [m \in Methods |-> gsapTable[m] + 1]
          /\ initError' = throws
          /\ scanTimer' = ScanInstalled(scrollTriggerAvailable, throws)
          /\ listeners' = ~throws
          /\ renderTimer' = ~throws
          /\ keydownListener' = ~throws
    /\ UNCHANGED <<domLoaded, probes, gateVars, gsapPresent, stPresent, objs, triggers, hooks>>

\* ------------------------------------------------------ interception layer
\* Which wrappers hand the object they got to monitorTween / monitorTimeline.
MonitorsAll(m) == TRUE

MonitorsNotFrom(m) == m \in {"to", "fromTo", "timeline"}

Monitors(m) == m \in {"to", "from", "fromTo", "timeline"}

\* original.apply(gsap, args): the argument list and the receiver the
\* original gets.
ForwardArgs(args) == args

ApplyReceiver == "gsap"

\* What a wrapper returns for the object the original returned (0: undefined).
ReturnNothing(id) == 0

WrapperReturn(id) == id

\* monitorTween: the static parameters captured once at creation ...
StaticKeys == {"duration", "delay", "ease", "repeat", "yoyo", "stagger"}

\* ... the keys that are no CSS property (the 'excluded' list) ...
ExcludedKeys ==
    {"onUpdate", "onComplete", "onStart", "onReverseComplete", "onInterrupt", "onRepeat",
     "onEachComplete", "delay", "duration", "ease", "repeat", "yoyo", "stagger", "id",
     "overwrite", "callbackScope", "paused", "reversed", "data", "immediateRender", "lazy",
     "inherit", "runBackwards", "simple", "defaults", "onToggle", "scrollTrigger"}

\* ... typeof vars[key] === 'function': in these vars, the callbacks.
FunctionKeys(v) == {k \in DOMAIN v : k \in CbTypes \cup {"onStart"}}

\* ... and the entry monitorTween stores.
TweenEntryNoStatic(v) == [current |-> EmptyObj]

TweenEntry(v) ==
    LET staticProps == Restrict(v, StaticKeys)
        cssPropsToMonitor == Restrict(v, DOMAIN v \ (ExcludedKeys \cup FunctionKeys(v)))
    IN Assign(Assign(staticProps, cssPropsToMonitor), [current |-> EmptyObj])

\* The three eventCallback installs of monitorTween and monitorTimeline.
InstallCallbacks(v) ==
    EventCallback(EventCallback(EventCallback(v,
        "onUpdate", "debugger"), "onComplete", "debugger"), "onReverseComplete", "debugger")

\* A call gsap[m](...args) by the page.  gsapTable[m] = 0: the library's own
\* function runs; otherwise the wrapper runs, calls what it captured and
\* registers the result.
Call(methods) ==
    /\ gsapPresent
    /\ Len(objs) < MaxObjs
    /\ \E m \in methods : \E args \in ArgsOf(m) :
         LET id == Len(objs) + 1
             depth == gsapTable[m]
             origArgs == IF depth > 0 THEN ForwardArgs(args) ELSE args
             made == VarsOf(origArgs)
             regs == IF Monitors(m) THEN depth ELSE 0
             o == [ kind |-> KindOf(m), method |-> m, args |-> args, depth |-> depth,
                    origArgs |-> origArgs,
                    origThis |-> IF depth > 0 THEN ApplyReceiver ELSE "gsap",
                    ret |-> IF depth > 0 THEN WrapperReturn(id) ELSE id,
                    regs |-> regs,
                    vars |-> IF regs > 0 THEN InstallCallbacks(made) ELSE made,
                    completed |-> FALSE ]
         IN /\ objs' = Append(objs, o)
            /\ activeAnimations' =
                 IF regs > 0 /\ o.kind = "tween"
                 THEN Put(activeAnimations, id, TweenEntry(made)) ELSE activeAnimations
            /\ activeTimelines' =
                 IF regs > 0 /\ o.kind = "timeline"
                 THEN Put(activeTimelines, id, EmptyObj) ELSE activeTimelines
    /\ UNCHANGED <<gsapPresent, stPresent, gsapTable, triggers,
                   activeScrollTriggers, eventData, hooks,
                   gateVars, probeVars, initVars>>

\* The page uses any of the five entry points.
GsapCall == Call(Methods)

\* The page uses one entry point of each kind.
GsapCallSome == Call({"to", "set", "timeline"})

\* The page builds one tween and nothing else.
TweenCall == objs = <<>> /\ Call({"to"})

\* The page builds one timeline and nothing else.
TimelineCall == objs = <<>> /\ Call({"timeline"})

\* ----------------------------------------------------- number formatting
\* Library numbers are kept in thousandths; Number.prototype.toFixed(d)
\* for d <= 3 on a value v / 1000, v >= 0.
Pow10(d) == CASE d = 0 -> 1 [] d = 1 -> 10 [] d = 2 -> 100 [] d = 3 -> 1000

Digits(n, d) ==
    CASE d = 0 -> ""
      [] d = 1 -> ToString(n % 10)
      [] d = 2 -> ToString((n \div 10) % 10) \o ToString(n % 10)
      [] d = 3 -> ToString((n \div 100) % 10) \o ToString((n \div 10) % 10) \o ToString(n % 10)

ToFixed(v, d) ==
    LET scale == Pow10(3 - d)
        r == (v + scale \div 2) \div scale
    IN ToString(r \div Pow10(d)) \o (IF d = 0 THEN "" ELSE "." \o Digits(r % Pow10(d), d))

\* ------------------------------------------- snapshot registry: animations
CoreTransformProps == {"x", "y", "rotation", "scaleX", "scaleY", "opacity"}

CurrentKey(prop) == "current_" \o prop

\* The tween's onUpdate callback: refresh the live values of its entry.
TweenOnUpdateOverwrites(reg, id, o, enabled, hasTarget, live) ==
    IF ~enabled \/ ~hasTarget \/ id \notin DOMAIN reg THEN reg
    ELSE Put(reg, id, Assign(reg[id], [k \in CoreTransformProps \cap DOMAIN o.vars |-> live]))

TweenOnUpdate(reg, id, o, enabled, hasTarget, live) ==
    IF ~enabled \/ ~hasTarget \/ id \notin DOMAIN reg THEN reg
    ELSE LET props == CoreTransformProps \cap DOMAIN o.vars
             liveUpdates == [k \in {CurrentKey(p) : p \in props} |-> live]
             currentProps == reg[id]
         IN Put(reg, id, [currentProps EXCEPT !.current = Assign(@, liveUpdates)])

\* What a timeline's state is read from at an update notification.
TimelineStates ==
    { [paused |-> p, reversed |-> r, time |-> 1500, timeScale |-> 1000,
       totalDuration |-> 2000, relativePositions |-> FALSE] : p, r \in BOOLEAN }

TimelineProps(o, t) ==
    [ status |-> IF t.paused THEN "paused" ELSE IF t.reversed THEN "reversed" ELSE "playing",
      currentTime |-> ToFixed(t.time, 2) \o "s",
      timeScale |-> ToFixed(t.timeScale, 2),
      totalDuration |-> ToFixed(t.totalDuration, 2) \o "s",
      positionParametersUsed |-> t.relativePositions,
      callbacks |-> [ onComplete |-> "onComplete" \in DOMAIN o.vars,
                      onStart |-> "onStart" \in DOMAIN o.vars,
                      onReverseComplete |-> "onReverseComplete" \in DOMAIN o.vars ] ]

\* The timeline's onUpdate callback: store a recomputed snapshot.
TimelineOnUpdateMerges(reg, id, o, enabled, t) ==
    IF ~enabled THEN reg
    ELSE Put(reg, id, Assign(TimelineProps(o, t), IF id \in DOMAIN reg THEN reg[id] ELSE EmptyObj))

TimelineOnUpdate(reg, id, o, enabled, t) ==
    IF ~enabled THEN reg ELSE Put(reg, id, TimelineProps(o, t))

\* The onComplete / onReverseComplete callbacks of both monitors.
OnComplete(reg, id) == Del(reg, id)

\* The library renders a tween and invokes its onUpdate callback.
TweenUpdate ==
    /\ \E id \in 1..Len(objs) : \E hasTarget \in BOOLEAN, live \in LiveValues :
         /\ objs[id].kind = "tween"
         /\ activeAnimations' =
              IF Invoked(objs[id], "onUpdate") = "debugger"
              THEN TweenOnUpdate(activeAnimations, id, objs[id], debuggerEnabled, hasTarget, live)
              ELSE activeAnimations
    /\ UNCHANGED <<activeTimelines, activeScrollTriggers, eventData, hooks,
                   gateVars, probeVars, libVars, initVars>>

\* The library renders a timeline, which is in state t, and invokes its
\* onUpdate callback.  The timeline's own state is part of the model only
\* where it is kept (keep): the callback reads it at the notification.
TimelineRender(keep) ==
    /\ \E id \in 1..Len(objs) : \E t \in TimelineStates :
         /\ objs[id].kind = "timeline"
         /\ objs' = IF keep THEN [objs EXCEPT ![id] = Put(@, "state", t)] ELSE objs
         /\ activeTimelines' =
              IF Invoked(objs[id], "onUpdate") = "debugger"
              THEN TimelineOnUpdate(activeTimelines, id, objs[id], debuggerEnabled, t)
              ELSE activeTimelines
    /\ UNCHANGED <<activeAnimations, activeScrollTriggers, eventData, hooks,
                   gsapPresent, stPresent, gsapTable, triggers,
                   gateVars, probeVars, initVars>>

TimelineUpdate == TimelineRender(FALSE)

\* The same with the timeline's state kept.
TimelineUpdateInState == TimelineRender(TRUE)

\* An object reaches its end (or, reversed, its start) and the library
\* invokes its onComplete (onReverseComplete) callback.
Complete ==
    /\ \E id \in 1..Len(objs) : \E type \in {"onComplete", "onReverseComplete"} :
         LET o == objs[id]
             mine == Invoked(o, type) = "debugger"
         IN /\ objs' = [objs EXCEPT ![id].completed = TRUE]
            /\ activeAnimations' =
                 IF mine /\ o.kind = "tween"
                 THEN OnComplete(activeAnimations, id) ELSE activeAnimations
            /\ activeTimelines' =
                 IF mine /\ o.kind = "timeline"
                 THEN OnComplete(activeTimelines, id) ELSE activeTimelines
    /\ UNCHANGED <<gsapPresent, stPresent, gsapTable, triggers,
                   activeScrollTriggers, eventData, hooks,
                   gateVars, probeVars, initVars>>

\* ------------------------------------------------------------ DOM elements
Window == [node |-> "window"]

Body == [node |-> "body"]

Box == [node |-> "element", id |-> "box", classes |-> <<>>, tagName |-> "DIV"]

Hero == [node |-> "element", id |-> "", classes |-> <<"hero", "dark">>, tagName |-> "SECTION"]

ToggleButton ==
    [node |-> "element", id |-> "gsap-debugger-toggle", classes |-> <<>>, tagName |-> "BUTTON"]

ToLowerCase(tag) ==
    CASE tag = "DIV" -> "div" [] tag = "SECTION" -> "section" [] tag = "BUTTON" -> "button"
      [] OTHER -> tag

getElementIdentifier(el) ==
    CASE el.node = "null" -> "N/A"
      [] el.node = "window" -> "Window"
      [] el.node = "body" -> "Body"
      [] OTHER ->
           IF el.id # "" THEN "#" \o el.id
           ELSE IF Len(el.classes) > 0
                THEN "." \o el.classes[1] \o (IF Len(el.classes) > 1 THEN " (+)" ELSE "")
           ELSE IF el.tagName # "" THEN "<" \o ToLowerCase(el.tagName) \o ">"
           ELSE "Unknown Element"

\* -------------------------------------------- snapshot registry: triggers
ProgressValues == {0, 1000}

\* A trigger as ScrollTrigger.create leaves it.
NewTrigger ==
    [ trigger |-> Hero, scroller |-> Window, start |-> 100000, end |-> 900400,
      progress |-> 0, pin |-> FALSE, isActive |-> FALSE,
      vars |-> [scrub |-> 500, toggleActions |-> <<"play", "pause", "resume", "reset">>] ]

\* toggleActions.split(' ').join(', ')
RECURSIVE JoinComma(_)
JoinComma(words) ==
    IF Len(words) = 0 THEN ""
    ELSE IF Len(words) = 1 THEN words[1]
    ELSE words[1] \o ", " \o JoinComma(Tail(words))

STProps(self) ==
    [ triggerElement |-> getElementIdentifier(self.trigger),
      scroller |-> getElementIdentifier(self.scroller),
      start |-> ToFixed(self.start, 0),
      end |-> ToFixed(self.end, 0),
      currentProgress |-> ToFixed(self.progress, 3),
      scrubValue |-> IF "scrub" \in DOMAIN self.vars THEN ToFixed(self.vars.scrub, 1) ELSE "none",
      pinState |-> IF self.pin THEN "true" ELSE "false",
      isActive |-> IF self.isActive THEN "true" ELSE "false",
      toggleActions |-> IF "toggleActions" \in DOMAIN self.vars
                        THEN JoinComma(self.vars.toggleActions)
                        ELSE "play, none, none, none" ]

updateSTPropsKeep(reg, t, self, enabled) ==
    IF ~enabled \/ (t \in DOMAIN reg /\ reg[t] # EmptyObj) THEN reg
    ELSE Put(reg, t, STProps(self))

updateSTPropsUnguarded(reg, t, self, enabled) == Put(reg, t, STProps(self))

updateSTProps(reg, t, self, enabled) ==
    IF ~enabled THEN reg ELSE Put(reg, t, STProps(self))

\* monitorScrollTrigger(st): registry and hook count after the call.
monitorScrollTriggerAgain(s, t, self, enabled) ==
    [ reg |-> updateSTProps(Put(s.reg, t, EmptyObj), t, self, enabled),
      hooks |-> [s.hooks EXCEPT ![t] = @ + 1] ]

monitorScrollTrigger(s, t, self, enabled) ==
    IF t \in DOMAIN s.reg THEN s
    ELSE [ reg |-> updateSTProps(Put(s.reg, t, EmptyObj), t, self, enabled),
           hooks |-> [s.hooks EXCEPT ![t] = @ + 1] ]

\* The scan's forEach over ScrollTrigger.getAll(), from trigger k on.
RECURSIVE ScanFrom(_, _, _, _)
ScanFrom(s, k, all, enabled) ==
    IF k > Len(all) THEN s
    ELSE ScanFrom(monitorScrollTrigger(s, k, all[k], enabled), k + 1, all, enabled)

\* The page creates a scroll trigger, its max-th at most.
CreateTriggers(max) ==
    /\ stPresent
    /\ Len(triggers) < max
    /\ triggers' = Append(triggers, NewTrigger)
    /\ hooks' = Append(hooks, 0)
    /\ UNCHANGED <<gsapPresent, stPresent, gsapTable, objs,
                   activeAnimations, activeTimelines, activeScrollTriggers, eventData,
                   gateVars, probeVars, initVars>>

CreateTrigger == CreateTriggers(MaxTriggers)

\* The page creates a trigger more (one at startup, one later).
CreateTriggerMore == CreateTriggers(MaxTriggers + 1)

\* The 500 ms scan timer fires.
ScanTick ==
    /\ scanTimer
    /\ \A t \in 1..Len(triggers) : t \in DOMAIN activeScrollTriggers \/ hooks[t] < MaxHooks
    /\ LET s == ScanFrom([reg |-> activeScrollTriggers, hooks |-> hooks], 1,
                         triggers, debuggerEnabled)
       IN /\ activeScrollTriggers' = s.reg
          /\ hooks' = s.hooks
    /\ UNCHANGED <<activeAnimations, activeTimelines, eventData,
                   gateVars, probeVars, libVars, initVars>>

\* The library moves a trigger to one of the given progress values (scroll,
\* activation change or refresh) and calls the hooks installed on it; each
\* runs updateSTProps.
Notify(values) ==
    /\ \E t \in 1..Len(triggers) : \E p \in values :
         LET self == [triggers[t] EXCEPT !.progress = p, !.isActive = (0 < p /\ p < 1000)]
         IN /\ triggers' = [triggers EXCEPT ![t] = self]
            /\ activeScrollTriggers' =
                 IF hooks[t] > 0
                 THEN updateSTProps(activeScrollTriggers, t, self, debuggerEnabled)
                 ELSE activeScrollTriggers
    /\ UNCHANGED <<gsapPresent, stPresent, gsapTable, objs,
                   activeAnimations, activeTimelines, eventData, hooks,
                   gateVars, probeVars, initVars>>

TriggerNotify == Notify(ProgressValues)

\* The trigger also stops half way, where it is active.
TriggerNotifyAny == Notify(ProgressValues \cup {500})

\* ---------------------------------------------------------- event snapshot
\* The tracked DOM events the user produces (coordinates in thousandths).
Events ==
    { [type |-> "mousemove", e |-> [clientX |-> 10400, clientY |-> 20600, target |-> Box]],
      [type |-> "keypress", e |-> [key |-> "a", target |-> Body]],
      [type |-> "wheel",
       e |-> [clientX |-> 50000, clientY |-> 60000, deltaY |-> 100000, target |-> Hero]],
      [type |-> "resize", e |-> [target |-> Window]] }

\* The click event of the toggle button: a mouse click, or the click()
\* call of the keyboard chord (coordinates 0).
ButtonClick(byMouse) ==
    [clientX |-> IF byMouse THEN 300000 ELSE 0, clientY |-> IF byMouse THEN 12000 ELSE 0,
     target |-> ToggleButton]

updateEventDataReplace(data, type, e, enabled) ==
    IF ~enabled THEN data
    ELSE LET d0 == [eventType |-> type]
             d1 == IF "clientX" \in DOMAIN e THEN Put(d0, "mouseX", ToFixed(e.clientX, 0)) ELSE d0
             d2 == IF "clientY" \in DOMAIN e THEN Put(d1, "mouseY", ToFixed(e.clientY, 0)) ELSE d1
             d3 == IF "deltaY" \in DOMAIN e THEN Put(d2, "deltaY", ToFixed(e.deltaY, 0)) ELSE d2
             d4 == IF "key" \in DOMAIN e THEN Put(d3, "lastKey", e.key) ELSE d3
         IN IF "target" \in DOMAIN e /\ e.target.node # "null"
            THEN Put(d4, "eventTarget", getElementIdentifier(e.target)) ELSE d4

updateEventData(data, type, e, enabled) ==
    IF ~enabled THEN data
    ELSE LET d0 == Put(data, "eventType", type)
             d1 == IF "clientX" \in DOMAIN e THEN Put(d0, "mouseX", ToFixed(e.clientX, 0)) ELSE d0
             d2 == IF "clientY" \in DOMAIN e THEN Put(d1, "mouseY", ToFixed(e.clientY, 0)) ELSE d1
             d3 == IF "deltaY" \in DOMAIN e THEN Put(d2, "deltaY", ToFixed(e.deltaY, 0)) ELSE d2
             d4 == IF "key" \in DOMAIN e THEN Put(d3, "lastKey", e.key) ELSE d3
         IN IF "target" \in DOMAIN e /\ e.target.node # "null"
            THEN Put(d4, "eventTarget", getElementIdentifier(e.target)) ELSE d4

\* One of the window listeners runs.
Dispatch(events) ==
    /\ listeners
    /\ \E ev \in events : eventData' = updateEventData(eventData, ev.type, ev.e, debuggerEnabled)
    /\ UNCHANGED <<activeAnimations, activeTimelines, activeScrollTriggers, hooks,
                   gateVars, probeVars, libVars, initVars>>

DomEvent == Dispatch(Events)

\* The user only moves the pointer.
PointerEvent == Dispatch({ev \in Events : ev.type = "mousemove"})

\* ------------------------------------------------------------ render loop
\* typeof value, by key: the numbers and booleans among the values the
\* registries hold here (every other value is a string shorter than 50).
NumberKeys ==
    {"duration", "delay", "repeat", "x", "y", "rotation", "scaleX", "scaleY", "opacity",
     "current_x", "current_y", "current_rotation", "current_scaleX", "current_scaleY",
     "current_opacity"}

BooleanKeys == {"yoyo", "positionParametersUsed", "onComplete", "onStart", "onReverseComplete"}

\* Whole numbers (the tween's vars and live values) are formatted as
\* thousandths.
formatProperty(key, value) ==
    IF key \in NumberKeys THEN key \o ": " \o ToFixed(value * 1000, 2)
    ELSE IF key \in BooleanKeys THEN key \o ": " \o (IF value THEN "true" ELSE "false")
    ELSE key \o ": " \o value

\* tween.targets()[0] of the tweens the page makes.
TargetOf(o) == Box

\* `${props.field}` of a field the snapshot may lack.
Field(props, k) == IF k \in DOMAIN props THEN props[k] ELSE "undefined"

\* The <div> updateDisplay writes for one entry of activeAnimations.
AnimationBlock(o, props) ==
    {"Target: " \o getElementIdentifier(TargetOf(o))}
      \cup {formatProperty(p, props[p]) : p \in StaticKeys \cap DOMAIN props}
      \cup {formatProperty(k, props.current[k]) : k \in DOMAIN props.current}
      \cup {formatProperty(k, props[k]) \o " (target)" :
               k \in DOMAIN props \ (StaticKeys \cup {"current"})}

\* What the loop over a timeline's snapshot appends, field by field.
TimelineFieldLines(props) ==
    {formatProperty(k, props[k]) : k \in DOMAIN props \ {"callbacks"}}
      \cup (IF "callbacks" \in DOMAIN props
            THEN {"Callbacks:"}
                   \cup {"- " \o formatProperty(c, props.callbacks[c]) : c \in DOMAIN props.callbacks}
            ELSE {})

\* The <div> updateDisplay writes for one entry of activeTimelines.
TimelineHeader(o) ==
    "Timeline: " \o (IF "id" \in DOMAIN o.vars THEN o.vars.id ELSE "Unnamed")

\* The <div> updateDisplay writes for one entry of activeScrollTriggers.
TriggerBlock(st, props) ==
    { "Trigger: " \o getElementIdentifier(st.trigger),
      "Scroller: " \o getElementIdentifier(st.scroller),
      "Progress: " \o Field(props, "currentProgress"),
      "Start: " \o Field(props, "start"),
      "End: " \o Field(props, "end"),
      "Scrub: " \o Field(props, "scrubValue"),
      "Pin: " \o Field(props, "pinState"),
      "Actions: " \o Field(props, "toggleActions"),
      "Is Active: " \o Field(props, "isActive") }

\* updateDisplay() past its first line: the overlay after it.  animHTML is assigned to the
\* animations section before the loop over the timelines runs; that loop
\* appends each timeline's fields to animHTML, not to timelineHTML, and the
\* string is not used again.
WriteSections(u, anims, tls, sts, data, os, trs) ==
         LET animHTML ==
               [ heading |-> "Animations:",
                 lines |-> IF DOMAIN anims = {} THEN {"No active animations."} ELSE {},
                 blocks |-> [id \in DOMAIN anims |-> AnimationBlock(os[id], anims[id])] ]
             timelineHTML ==
               [ heading |-> "Timelines:",
                 lines |-> IF DOMAIN tls = {} THEN {"No active timelines."} ELSE {},
                 blocks |-> [id \in DOMAIN tls |-> {TimelineHeader(os[id])}] ]
             animHTMLAfter ==
               [animHTML EXCEPT !.lines =
                  @ \cup UNION {TimelineFieldLines(tls[id]) : id \in DOMAIN tls}]
             stHTML ==
               [ heading |-> "ScrollTriggers:",
                 lines |-> IF DOMAIN sts = {} THEN {"No active ScrollTriggers."} ELSE {},
                 blocks |-> [t \in DOMAIN sts |-> TriggerBlock(trs[t], sts[t])] ]
             eventHTML ==
               [ heading |-> "Events:",
                 lines |-> IF DOMAIN data = {} THEN {"No active events to track."}
                           ELSE {formatProperty(k, data[k]) : k \in DOMAIN data},
                 blocks |-> [k \in {} |-> {}] ]
         IN [u EXCEPT !.animationDiv = animHTML, !.timelineDiv = timelineHTML,
                      !.scrollTriggerDiv = stHTML, !.eventsDiv = eventHTML]

\* updateDisplay(): nothing while the flag is false.
updateDisplayAlways(u, enabled, anims, tls, sts, data, os, trs) ==
    WriteSections(u, anims, tls, sts, data, os, trs)

updateDisplay(u, enabled, anims, tls, sts, data, os, trs) ==
    IF ~enabled THEN u ELSE WriteSections(u, anims, tls, sts, data, os, trs)

\* The 100 ms render timer fires.
RenderTick ==
    /\ renderTimer
    /\ ui' = updateDisplay(ui, debuggerEnabled, activeAnimations, activeTimelines,
                           activeScrollTriggers, eventData, objs, triggers)
    /\ UNCHANGED <<originals, scanTimer, listeners, renderTimer, keydownListener, initError,
                   gateVars, probeVars, libVars, dataVars>>

\* ------------------------------------------------------------- the toggle
\* What the click handler leaves of a registry or of the event snapshot,
\* given the new value of the flag.
ClearNever(reg, enabled) == reg

ClearAlways(reg, enabled) == EmptyObj

ClearOnDisable(reg, enabled) == IF ~enabled THEN EmptyObj ELSE reg

\* A click event on the toggle button: the button's handler, then (the
\* event bubbles) the window's click listener.
Click(byMouse) ==
    LET enabled == ~debuggerEnabled
    IN /\ debuggerEnabled' = enabled
       /\ storage' = SetItem(enabled)
       /\ ui' = UpdateToggleButton(ui, enabled)
       /\ activeAnimations' = ClearOnDisable(activeAnimations, enabled)
       /\ activeTimelines' = ClearOnDisable(activeTimelines, enabled)
       /\ activeScrollTriggers' = ClearOnDisable(activeScrollTriggers, enabled)
       /\ eventData' =
            LET cleared == ClearOnDisable(eventData, enabled)
            IN IF listeners THEN updateEventData(cleared, "click", ButtonClick(byMouse), enabled)
               ELSE cleared
       /\ UNCHANGED <<query, loads, prevQuery, domListener, hooks, probeVars, libVars,
                      originals, scanTimer, listeners, renderTimer, keydownListener, initError>>

\* The user clicks the button (it is on screen only while the panel is).
ToggleClick ==
    /\ ui # EmptyObj
    /\ ComputedDisplay(ui, stylesInjected) # "none"
    /\ Click(TRUE)

\* The keys of a keydown event.
KeyEvents == { [key |-> k, mod |-> m] : k \in {"D", "d"}, m \in BOOLEAN }

IsChord(e) == e.key = "D" /\ e.mod

\* KeyboardEvent.key of a press of the D key: the letter as typed, 'D' with
\* Shift held and 'd' without.
KeyOfD(shift) == IF shift THEN "D" ELSE "d"

\* The window's keydown listener: the chord clicks the toggle button.
KeyDownListenerFlips(e) ==
    IF IsChord(e)
    THEN /\ debuggerEnabled' = ~debuggerEnabled
         /\ UNCHANGED <<storage, query, loads, prevQuery, domListener,
                        probeVars, libVars, initVars, dataVars>>
    ELSE UNCHANGED vars

KeyDownListener(e) == IF IsChord(e) THEN Click(FALSE) ELSE UNCHANGED vars

\* The user presses a key while the listener is installed.
KeyDown ==
    /\ keydownListener
    /\ \E e \in KeyEvents : KeyDownListener(e)

\* ------------------------------------------------------- section checkboxes
MenuSections == {"animations", "timelines", "scrolltriggers", "events"}

\* The change listener of a section's checkbox: the section's inline
\* display follows the checkbox's new state.
SectionChangeAll(u, s, checked) ==
    [u EXCEPT !.checked[s] = checked,
              !.sectionDisplay = [x \in MenuSections |-> IF checked THEN "block" ELSE "none"]]

SectionChange(u, s, checked) ==
    [u EXCEPT !.checked[s] = checked,
              !.sectionDisplay[s] = IF checked THEN "block" ELSE "none"]

\* A section without inline display is a block: only 'none' hides it.
SectionShown(u, s) == u.sectionDisplay[s] # "none"

\* The user changes the checkbox of one of the given sections (the controls
\* take pointer events while the panel is on screen).
MenuChange(sections) ==
    /\ ui # EmptyObj
    /\ ComputedDisplay(ui, stylesInjected) # "none"
    /\ \E s \in sections : ui' = SectionChange(ui, s, ~ui.checked[s])
    /\ UNCHANGED <<originals, scanTimer, listeners, renderTimer, keydownListener, initError,
                   gateVars, probeVars, libVars, dataVars>>

CheckboxChange == MenuChange(MenuSections)

\* The user only uses the Events checkbox.
EventsCheckboxChange == MenuChange({"events"})

\* The gate, the probe and the shell over page loads; the page constructs
\* no animation.
NextGate ==
    \/ LoadPage
    \/ DomContentLoaded
    \/ LibraryLoads
    \/ ExtensionLoads
    \/ ProbeRetry
    \/ ProbeInit
    \/ CreateTrigger
    \/ ToggleClick
    \/ KeyDown

SpecGate == Init /\ [][NextGate]_vars

\* One page load without the scroll-trigger extension: interception and the
\* animation and timeline registries.
NextCalls ==
    \/ DomContentLoaded
    \/ LibraryLoads
    \/ ProbeRetry
    \/ ProbeInit
    \/ GsapCall
    \/ TweenUpdate
    \/ TimelineUpdate
    \/ Complete
    \/ ToggleClick
    \/ KeyDown

SpecCalls == Init /\ [][NextCalls]_vars

\* One page load, every component.
Next ==
    \/ DomContentLoaded
    \/ LibraryLoads
    \/ ExtensionLoads
    \/ ProbeRetry
    \/ ProbeInit
    \/ GsapCallSome
    \/ TweenUpdate
    \/ TimelineUpdate
    \/ Complete
    \/ CreateTrigger
    \/ ScanTick
    \/ TriggerNotify
    \/ PointerEvent
    \/ ToggleClick
    \/ KeyDown

Spec == Init /\ [][Next]_vars

\* One page load with the render loop.
NextRender ==
    \/ DomContentLoaded
    \/ LibraryLoads
    \/ ExtensionLoads
    \/ ProbeInit
    \/ GsapCallSome
    \/ TweenUpdate
    \/ TimelineUpdate
    \/ Complete
    \/ CreateTrigger
    \/ ScanTick
    \/ TriggerNotify
    \/ ToggleClick
    \/ RenderTick

SpecRender == Init /\ [][NextRender]_vars

\* One page load, the probe and the shell: the browser fires DOMContentLoaded
\* and every pending timer.
NextProbe ==
    \/ DomContentLoaded
    \/ LibraryLoads
    \/ ExtensionLoads
    \/ ProbeRetry
    \/ ProbeInit
    \/ CreateTrigger
    \/ ToggleClick
    \/ KeyDown

SpecProbe ==
    /\ Init /\ [][NextProbe]_vars
    /\ WF_vars(DomContentLoaded) /\ WF_vars(ProbeRetry) /\ WF_vars(ProbeInit)

\* One page load and its triggers, one trigger more and no toggle; the
\* browser fires the scan timer as long as it is installed.
NextScan ==
    \/ DomContentLoaded
    \/ LibraryLoads
    \/ ExtensionLoads
    \/ ProbeRetry
    \/ ProbeInit
    \/ CreateTriggerMore
    \/ ScanTick
    \/ TriggerNotify

SpecScan == Init /\ [][NextScan]_vars /\ WF_vars(ScanTick)

\* One page load with the four section checkboxes, the render loop, tweens
\* and pointer events.
NextMenu ==
    \/ DomContentLoaded
    \/ LibraryLoads
    \/ ProbeInit
    \/ TweenCall
    \/ TweenUpdate
    \/ PointerEvent
    \/ CheckboxChange
    \/ RenderTick
    \/ ToggleClick

SpecMenu == Init /\ [][NextMenu]_vars

\* One page load and one timeline, whose playback state is kept.
NextTimelines ==
    \/ DomContentLoaded
    \/ LibraryLoads
    \/ ProbeRetry
    \/ ProbeInit
    \/ TimelineCall
    \/ TimelineUpdateInState
    \/ Complete
    \/ ToggleClick
    \/ KeyDown

SpecTimelines == Init /\ [][NextTimelines]_vars

\* One page load and its triggers (one more than elsewhere), with the
\* toggle.
NextTriggers ==
    \/ DomContentLoaded
    \/ LibraryLoads
    \/ ExtensionLoads
    \/ ProbeInit
    \/ CreateTriggerMore
    \/ ScanTick
    \/ TriggerNotifyAny
    \/ ToggleClick

SpecTriggers == Init /\ [][NextTriggers]_vars

\* One page load without animations and triggers: the window's listeners,
\* the render loop and the toggle.
NextEvents ==
    \/ DomContentLoaded
    \/ LibraryLoads
    \/ ProbeRetry
    \/ ProbeInit
    \/ DomEvent
    \/ RenderTick
    \/ ToggleClick
    \/ KeyDown

SpecEvents == Init /\ [][NextEvents]_vars

\* One page load with every kind of handler: the timers, the library's
\* callbacks (of timelines and triggers), the window's listeners, a section
\* checkbox, the button and the keyboard.
NextHandlers ==
    \/ DomContentLoaded
    \/ LibraryLoads
    \/ ExtensionLoads
    \/ ProbeInit
    \/ TimelineCall
    \/ TimelineUpdate
    \/ Complete
    \/ CreateTrigger
    \/ ScanTick
    \/ TriggerNotify
    \/ PointerEvent
    \/ EventsCheckboxChange
    \/ RenderTick
    \/ ToggleClick
    \/ KeyDown

SpecHandlers == Init /\ [][NextHandlers]_vars

\* =================================================================== claims
Patched == \A m \in Methods : gsapTable[m] > 0

NothingInitialized ==
    /\ ~probeTimer /\ probes = 0 /\ ~stylesInjected
    /\ gsapTable = Unpatched /\ originals = EmptyObj
    /\ ui = EmptyObj
    /\ ~scanTimer /\ ~listeners /\ ~renderTimer /\ ~keydownListener
    /\ activeAnimations = EmptyObj /\ activeTimelines = EmptyObj
    /\ activeScrollTriggers = EmptyObj /\ eventData = EmptyObj

\* C1: at the end of the gate (before DOMContentLoaded) the flag is true
\* exactly when the parameter, if present, is 'true' (and then the flag's
\* string form is what is persisted), or, without the parameter, when the
\* persisted value is 'true'; a load without the parameter leaves the
\* persisted value alone; the DOMContentLoaded listener exists exactly when
\* the flag came out true, and without it nothing ever initializes.
C1_ActivationGate ==
    /\ [](~domLoaded =>
            /\ domListener = debuggerEnabled
            /\ query # NoValue =>
                 /\ debuggerEnabled = (query = "true")
                 /\ storage = (IF debuggerEnabled THEN "true" ELSE "false")
            /\ query = NoValue => debuggerEnabled = (storage = "true"))
    /\ [](~domListener => NothingInitialized)
    /\ [][loads' = loads + 1 /\ query' = NoValue => storage' = storage]_vars

\* C1 witness: a second load whose parameter is neither 'true' nor 'false'
\* came out disabled, persisted 'false', and after DOMContentLoaded with the
\* library present still nothing is initialized.
C1_Witness ==
    /\ loads = 2 /\ query = "1" /\ storage = "false" /\ ~debuggerEnabled
    /\ domLoaded /\ gsapPresent /\ ~probeTimer /\ ui = EmptyObj

\* C2: a load with the parameter 'true' (or 'false'), left in the state its
\* gate produced, followed by a load without the parameter: the second load
\* comes out enabled exactly when the first did.
C2_ReloadReproduces ==
    [][ ( /\ loads' = loads + 1
          /\ query \in {"true", "false"} /\ query' = NoValue
          /\ debuggerEnabled = domListener )
        => ( /\ debuggerEnabled' = debuggerEnabled
             /\ domListener' = domListener
             /\ debuggerEnabled' = (query = "true") ) ]_vars

\* C2 witness: the second load, without parameter, after a load with
\* 'true', is enabled and has built its panel.
C2_Witness ==
    /\ loads = 2 /\ prevQuery = "true" /\ query = NoValue
    /\ debuggerEnabled /\ ui # EmptyObj /\ ui.display = "flex"

\* The objects the page constructed through a patched entry point.
ViaPatch == {i \in 1..Len(objs) : objs[i].depth > 0}

RECURSIVE RegsUpTo(_)
RegsUpTo(n) == IF n = 0 THEN 0 ELSE objs[n].regs + RegsUpTo(n - 1)

\* Calls of monitorTween and monitorTimeline so far.
Registrations == RegsUpTo(Len(objs))

Entries == DOMAIN activeAnimations \cup DOMAIN activeTimelines

\* C3 as stated: N construction calls through the patched entry points (to,
\* from, fromTo, set, timeline) make exactly N registrations.
C3_EveryCallRegisters == Registrations = Cardinality(ViaPatch)

\* C3 amended: N construction calls through the patched to, from, fromTo and
\* timeline make exactly N registrations, one each; calls through the
\* patched set make none.
C3_TrackingCallsRegister ==
    /\ Registrations = Cardinality({i \in ViaPatch : objs[i].method # "set"})
    /\ \A i \in ViaPatch : objs[i].regs = IF objs[i].method = "set" THEN 0 ELSE 1

\* C3 witness: two patched calls, one of them gsap.set, one registration.
C3_Witness ==
    /\ Cardinality(ViaPatch) = 2 /\ Registrations = 1
    /\ \E i, j \in ViaPatch : objs[i].method = "set" /\ objs[j].method = "from"

\* C4: a call through a wrapper constructs exactly one library object, from
\* the caller's argument list unchanged and with gsap as receiver, and
\* returns that very object.
C4_TransparentCall ==
    [][ (objs' # objs /\ Len(objs') # Len(objs) /\ objs'[Len(objs')].depth > 0)
        => LET id == Len(objs')
               o == objs'[id]
           IN /\ id = Len(objs) + 1
              /\ SubSeq(objs', 1, Len(objs)) = objs
              /\ o.origArgs = o.args /\ Len(o.origArgs) = Len(o.args)
              /\ o.origThis = "gsap"
              /\ o.ret = id
              /\ o.kind = (IF o.method = "timeline" THEN "timeline" ELSE "tween") ]_vars

\* C4 witness: a three-argument fromTo call went through the wrapper.
C4_Witness ==
    \E i \in ViaPatch :
        /\ objs[i].method = "fromTo" /\ Len(objs[i].origArgs) = 3 /\ objs[i].ret = i

\* The callbacks the caller declared on an object.
Declared(o) == CbTypes \cap DOMAIN VarsOf(o.args)

\* C5: for an object obtained through a wrapped entry point, the update,
\* completion and reverse-completion callbacks the caller declared are the
\* ones the library invokes.
C5_CallbacksKept ==
    \A i \in ViaPatch : \A c \in Declared(objs[i]) : Invoked(objs[i], c) = "user"

\* C6: a call of the patched gsap.set leaves the three registries as they
\* were.
C6_SetRegistersNothing ==
    [][ ( /\ Len(objs') = Len(objs) + 1
          /\ objs'[Len(objs')].method = "set" /\ objs'[Len(objs')].depth > 0 )
        => UNCHANGED <<activeAnimations, activeTimelines, activeScrollTriggers>> ]_vars

\* C6 witness: a patched gsap.set call was made while the animation and the
\* trigger registry held entries.
C6_Witness ==
    /\ objs # <<>> /\ objs[Len(objs)].method = "set" /\ objs[Len(objs)].depth > 0
    /\ activeAnimations # EmptyObj /\ activeScrollTriggers # EmptyObj

\* C7: whatever the number of probe retries, every entry point carries at
\* most one wrapper, what the wrapper captured is the library's own
\* function, and no construction call registers more than once (once for to,
\* from, fromTo, timeline).
C7_PatchedOnce ==
    /\ \A m \in Methods : gsapTable[m] <= 1
    /\ Patched => \A m \in Methods : originals[m] = 0
    /\ \A i \in 1..Len(objs) :
         /\ objs[i].regs <= 1
         /\ objs[i].depth > 0 /\ objs[i].method # "set" => objs[i].regs = 1

\* C7 witness: after two failed probe attempts the library was patched and
\* a construction call registered once.
C7_Witness ==
    /\ probes = 2 /\ Patched
    /\ \E i \in ViaPatch : objs[i].regs = 1 /\ i \in Entries

\* C8: an animation or timeline that has signalled completion or
\* reverse-completion has no registry entry, in the state after the signal
\* and in every later one.
C8_CompletedStayOut == \A i \in 1..Len(objs) : objs[i].completed => i \notin Entries

\* Constructed through a patched entry point that tracks what it constructs.
TrackedObj(o) == o.depth > 0 /\ o.method \in {"to", "from", "fromTo", "timeline"}

Tracked(i) == TrackedObj(objs[i])

\* The triggers monitorScrollTrigger has been applied to.
Discovered == {t \in 1..Len(triggers) : hooks[t] > 0}

Disabling == debuggerEnabled /\ ~debuggerEnabled'

C10_ClearOnDisable ==
    [][ /\ Disabling =>
             /\ activeAnimations' = EmptyObj /\ activeTimelines' = EmptyObj
             /\ activeScrollTriggers' = EmptyObj /\ eventData' = EmptyObj
        /\ (~debuggerEnabled /\ debuggerEnabled') =>
             /\ activeAnimations' = activeAnimations /\ activeTimelines' = activeTimelines
             /\ activeScrollTriggers' = activeScrollTriggers
             /\ DOMAIN eventData \subseteq DOMAIN eventData' ]_vars

\* C10 witness: the shell was re-enabled by the keyboard chord (the click it
\* made is the event snapshot) with all three registries holding entries
\* of objects made while it was disabled.
C10_Witness ==
    /\ debuggerEnabled /\ listeners
    /\ "mouseX" \in DOMAIN eventData /\ eventData.mouseX = "0"
    /\ activeAnimations # EmptyObj /\ activeTimelines # EmptyObj
    /\ \E t \in DOMAIN activeScrollTriggers : activeScrollTriggers[t] = EmptyObj

\* C11: while the shell is enabled (so also after it was disabled and enabled
\* again) an entry that appears in a registry belongs to an object
\* constructed in that very step or to a trigger that had not been
\* discovered before; an object or trigger that was tracked before and has
\* not completed does not come back through an update notification or the
\* scan.
C11_ClearedStayOut ==
    [][ (debuggerEnabled /\ debuggerEnabled') =>
          /\ \A i \in Entries' \ Entries :
                objs'[i].completed \/ (i = Len(objs') /\ Len(objs') = Len(objs) + 1)
          /\ \A t \in DOMAIN activeScrollTriggers' \ DOMAIN activeScrollTriggers :
                hooks[t] = 0 ]_vars

\* C12: the step that constructs a tween through a patched to, from or
\* fromTo adds exactly one entry, the one of that tween, whose duration and
\* ease are the declared ones and which holds no live value yet; a tween
\* that has signalled completion has no entry.
C12_StaticCapture ==
    /\ [][ ( /\ Len(objs') = Len(objs) + 1
             /\ TrackedObj(objs'[Len(objs')]) /\ objs'[Len(objs')].kind = "tween" )
           => LET id == Len(objs')
                  declared == VarsOf(objs'[id].args)
              IN /\ DOMAIN activeAnimations' = DOMAIN activeAnimations \cup {id}
                 /\ id \notin DOMAIN activeAnimations
                 /\ \A k \in {"duration", "ease"} \cap DOMAIN declared :
                       /\ k \in DOMAIN activeAnimations'[id]
                       /\ activeAnimations'[id][k] = declared[k]
                 /\ activeAnimations'[id].current = EmptyObj ]_vars
    /\ [](\A i \in 1..Len(objs) :
            (objs[i].kind = "tween" /\ objs[i].completed) => i \notin DOMAIN activeAnimations)

\* C12 witness: a tween declared with duration 2 and ease "power2" has its
\* entry with these two values and no live value, next to a completed tween
\* that has none.
C12_Witness ==
    \E i, j \in 1..Len(objs) :
        /\ Tracked(i) /\ objs[i].method = "to" /\ ~objs[i].completed
        /\ i \in DOMAIN activeAnimations
        /\ activeAnimations[i].duration = 2 /\ activeAnimations[i].ease = "power2"
        /\ activeAnimations[i].current = EmptyObj
        /\ Tracked(j) /\ objs[j].kind = "tween" /\ objs[j].completed
        /\ j \notin DOMAIN activeAnimations

\* A step of the render timer that rewrote the panel.
Rendering == ui # EmptyObj /\ ui' # ui /\ debuggerEnabled /\ debuggerEnabled'

\* The library notified a hooked trigger of a new state while the shell is on.
Notified(t) ==
    /\ t \in 1..Len(triggers) /\ Len(triggers') = Len(triggers)
    /\ triggers'[t] # triggers[t] /\ hooks[t] > 0 /\ debuggerEnabled

\* The progress line the trigger section shows for trigger t.
Shows(u, t, text) ==
    /\ t \in DOMAIN u.scrollTriggerDiv.blocks
    /\ ("Progress: " \o text) \in u.scrollTriggerDiv.blocks[t]

\* The snapshot's progress field after a notification, and what a render
\* shows of it.
ProgressFormatted ==
    /\ \A t \in 1..Len(triggers) :
          Notified(t) =>
            /\ t \in DOMAIN activeScrollTriggers'
            /\ triggers'[t].progress = 0 => activeScrollTriggers'[t].currentProgress = "0.000"
            /\ triggers'[t].progress = 1000 => activeScrollTriggers'[t].currentProgress = "1.000"
    /\ Rendering =>
          \A t \in DOMAIN activeScrollTriggers :
            \A text \in {"0.000", "1.000"} :
              Shows(ui', t, text) <=> Field(activeScrollTriggers[t], "currentProgress") = text

\* C13 as stated: a trigger's progress is 0.0 at one notification and 1.0 at
\* the next; the snapshot and the rendered section show '0.000' and then
\* '1.000', whatever the interleaving with the render ticks: when the
\* second notification replaces the first value, the section has shown it.
C13_EachValueRendered ==
    [][ /\ ProgressFormatted
        /\ \A t \in 1..Len(triggers) :
              ( /\ Notified(t) /\ t \in DOMAIN activeScrollTriggers
                /\ triggers[t].progress = 0 /\ triggers'[t].progress = 1000
                /\ Field(activeScrollTriggers[t], "currentProgress") = "0.000" )
              => Shows(ui, t, "0.000") ]_vars

\* C13 amended: with the shell enabled, after the notification with
\* progress 0.0 the snapshot's progress field is '0.000', after the one with
\* 1.0 it is '1.000', and a render tick shows for every trigger the value
\* its snapshot holds at that tick (a value replaced before the next tick
\* is never shown).
C13_ProgressRendered == [][ProgressFormatted]_vars

\* C13 witness: the section still shows '0.000', rendered after the first
\* notification, while the snapshot already holds '1.000' from the second.
C13_Witness ==
    \E t \in DOMAIN activeScrollTriggers :
        /\ debuggerEnabled /\ hooks[t] > 0 /\ triggers[t].progress = 1000
        /\ Field(activeScrollTriggers[t], "currentProgress") = "1.000"
        /\ Shows(ui, t, "0.000")

\* The content of the four sections.
Sections(u) == <<u.animationDiv, u.timelineDiv, u.scrollTriggerDiv, u.eventsDiv>>

\* C14: while the enabled flag is false no step, so no tick of the render
\* timer, changes the content of the four sections (updateDisplay writes
\* nothing else: the registries and the event snapshot are not its to
\* change).
C14_DisabledTickNoOp ==
    [][ (~debuggerEnabled /\ ui # EmptyObj) => Sections(ui') = Sections(ui) ]_vars

\* C14 witness: the flag is false, the render timer runs, and the sections
\* are not what updateDisplay would write from the registries as they are.
C14_Witness ==
    /\ ~debuggerEnabled /\ renderTimer /\ ui # EmptyObj
    /\ ui.animationDiv.blocks # [k \in {} |-> {}]
    /\ activeAnimations = EmptyObj
    /\ activeScrollTriggers # EmptyObj
    /\ ui # WriteSections(ui, activeAnimations, activeTimelines, activeScrollTriggers,
                          eventData, objs, triggers)

\* C15: after a render tick while enabled the timelines section holds, for
\* every entry of the timeline registry, a block with every field of the
\* entry's snapshot (status, current time, time-scale, total duration,
\* relative-position flag, callback flags), and the animations section
\* holds the blocks of the animation registry's entries and nothing else.
C15_SectionsSerializeRegistries ==
    [][ Rendering =>
          /\ \A id \in DOMAIN activeTimelines :
                /\ id \in DOMAIN ui'.timelineDiv.blocks
                /\ TimelineFieldLines(activeTimelines[id]) \subseteq ui'.timelineDiv.blocks[id]
          /\ DOMAIN ui'.animationDiv.blocks = DOMAIN activeAnimations
          /\ ui'.animationDiv.lines \subseteq {"No active animations."} ]_vars

\* A probe attempt that found no library.
FailedProbe == probes' = probes + 1

\* What initialization proper sets up.
InitUntouched ==
    UNCHANGED <<ui, gsapTable, originals, scanTimer, listeners, renderTimer, keydownListener,
                initError, dataVars>>

\* The probe's schedule: until initialization has run a probe is pending
\* (whatever the number of failed attempts), each failed attempt leaves
\* one attempt pending, the library's presence leads to initialization, and
\* after initialization no attempt is pending or made.
ProbeSchedule ==
    /\ []((domLoaded /\ domListener /\ ui = EmptyObj) => probeTimer)
    /\ [][FailedProbe => (~gsapPresent /\ probeTimer /\ probeTimer')]_vars
    /\ ((domListener /\ gsapPresent) ~> (ui # EmptyObj))
    /\ [](ui # EmptyObj => ~probeTimer)
    /\ [][ui # EmptyObj => probes' = probes]_vars

\* C16 as stated: a probe attempt without the library schedules exactly one
\* further attempt and initializes nothing, at any number of attempts; the
\* library's lasting presence leads to initialization; after it no further
\* attempt is scheduled.
C16_ProbeInitializesNothing ==
    /\ ProbeSchedule
    /\ [][FailedProbe => (InitUntouched /\ stylesInjected' = stylesInjected)]_vars

\* C16 amended: as stated, except that a probe attempt injects the
\* debugger's style rules if the page does not have them yet (so the first
\* failed attempt does); nothing else is initialized.
C16_ProbeRetries ==
    /\ ProbeSchedule
    /\ [][FailedProbe => (InitUntouched /\ stylesInjected')]_vars

\* C16 witness: initialization has run after two failed attempts, with the
\* extension present, and no attempt is pending.
C16_Witness ==
    /\ probes = 2 /\ ui # EmptyObj /\ ~ui.markerDisabled /\ Patched /\ ~probeTimer

\* The step in which initializeDebugger ran past the probe.
Initializing == ui = EmptyObj /\ ui' # EmptyObj

\* C17: when initialization runs with the extension present, every trigger
\* that exists at that moment has a registry entry when it finishes.
C17_StartupTriggersRegistered ==
    [][ (Initializing /\ stPresent) =>
          \A t \in 1..Len(triggers) : t \in DOMAIN activeScrollTriggers' ]_vars

\* A scan tick that registered something.
Scanned == Len(hooks') = Len(hooks) /\ hooks' # hooks

\* C18: with the extension present at initialization, a trigger created
\* after it is eventually handed to monitorScrollTrigger by the scan; a scan
\* tick registers the triggers of the live list that have no entry, once
\* each, and leaves the entries of the others as they are.
C18_LateTriggersScanned ==
    /\ \A t \in 1..(MaxTriggers + 1) :
          []( (ui # EmptyObj /\ ~ui.markerDisabled /\ Len(triggers) < t)
                => [](Len(triggers) >= t => <>(Len(hooks) >= t /\ hooks[t] > 0)) )
    /\ [][ Scanned =>
             \A t \in 1..Len(triggers) :
               IF t \in DOMAIN activeScrollTriggers
               THEN /\ t \in DOMAIN activeScrollTriggers'
                    /\ activeScrollTriggers'[t] = activeScrollTriggers[t]
                    /\ hooks'[t] = hooks[t]
               ELSE /\ t \in DOMAIN activeScrollTriggers'
                    /\ hooks'[t] = hooks[t] + 1 ]_vars

\* C19 as stated: a trigger that has a registry entry has one in every
\* later state of the page load.
C19_TriggerEntryKept ==
    [][DOMAIN activeScrollTriggers \subseteq DOMAIN activeScrollTriggers']_vars

\* C19 amended: a trigger's entry is removed only by a toggle that disables
\* the shell, which empties the registry; no update, scan tick, completion
\* or enabling toggle removes it, and the hooks installed on the trigger
\* stay.
C19_TriggerEntryClearedOnlyByDisable ==
    [][ /\ DOMAIN activeScrollTriggers \subseteq DOMAIN activeScrollTriggers'
           \/ (Disabling /\ activeScrollTriggers' = EmptyObj)
        /\ \A t \in 1..Len(hooks) : hooks'[t] >= hooks[t] ]_vars

\* C19 witness: a trigger that was registered and updated has lost its
\* entry to a disabling toggle and is still hooked.
C19_Witness ==
    /\ ~debuggerEnabled /\ activeScrollTriggers = EmptyObj
    /\ \E t \in 1..Len(triggers) : hooks[t] = 1 /\ triggers[t].progress = 1000

\* The panel is on screen.
Displayed == ui # EmptyObj /\ ComputedDisplay(ui, stylesInjected) # "none"

\* C20: an activation of the toggle (the only thing that changes the panel
\* here) flips the flag and persists the new value's string form; whenever
\* the panel exists it is displayed exactly when the flag is true and its
\* button reads 'ON' exactly when the flag is true.
C20_ToggleFlipsPersistsShows ==
    /\ [][ (ui # EmptyObj /\ loads' = loads /\ (ui' # ui \/ debuggerEnabled' # debuggerEnabled))
           => /\ debuggerEnabled' = ~debuggerEnabled
              /\ storage' = (IF debuggerEnabled' THEN "true" ELSE "false") ]_vars
    /\ [](ui # EmptyObj =>
            /\ Displayed <=> debuggerEnabled
            /\ ui.buttonText = (IF debuggerEnabled THEN "ON" ELSE "OFF"))

\* A press of the D key with Ctrl or Cmd held, as the keydown event the
\* browser dispatches for it.
ChordPress(shift) == [key |-> KeyOfD(shift), mod |-> TRUE]

\* The state change of one click on the toggle button.
ToggledAsByClick ==
    /\ debuggerEnabled' = ~debuggerEnabled
    /\ storage' = (IF debuggerEnabled THEN "false" ELSE "true")
    /\ ui' = UpdateToggleButton(ui, ~debuggerEnabled)
    /\ debuggerEnabled =>
          /\ activeAnimations' = EmptyObj /\ activeTimelines' = EmptyObj
          /\ activeScrollTriggers' = EmptyObj /\ eventData' = EmptyObj
    /\ ~debuggerEnabled =>
          UNCHANGED <<activeAnimations, activeTimelines, activeScrollTriggers>>

\* C21: in every state after initialization, a press of the D key with Ctrl
\* or Cmd held (with or without Shift) makes the state change of one click
\* on the toggle button: flag flipped, value persisted, button and panel
\* style updated, registries and event snapshot emptied when the result is
\* disabled.
C21_ChordTogglesLikeClick ==
    ui # EmptyObj =>
        \A shift \in BOOLEAN :
            ENABLED (keydownListener /\ KeyDownListener(ChordPress(shift)) /\ ToggledAsByClick)

\* The state change the toggle handler makes, with the click event that
\* started it as the only thing the window's listeners may have recorded.
ToggleHandlerRan ==
    /\ debuggerEnabled' = ~debuggerEnabled
    /\ storage' = (IF debuggerEnabled' THEN "true" ELSE "false")
    /\ ui' = UpdateToggleButton(ui, debuggerEnabled')
    /\ eventData' = EmptyObj \/ eventData'.eventType = "click"
    /\ UNCHANGED <<probeVars, libVars, hooks,
                   originals, scanTimer, listeners, renderTimer, keydownListener, initError>>

\* C22: after initialization a step that changes the enabled flag or the
\* persisted value is a run of the toggle handler; no tick of the probe,
\* scan or render timer, no update, completion or trigger notification, no
\* checkbox change and no pointer event changes either of them.
C22_FlagChangesOnlyInToggle ==
    [][ (ui # EmptyObj /\ (debuggerEnabled' # debuggerEnabled \/ storage' # storage))
        => ToggleHandlerRan ]_vars

\* C22 witness: the flag, true at the gate, is false and persisted as
\* 'false' after the scan hooked a trigger, a timeline completed, the
\* Events checkbox was checked and the render timer wrote the sections.
C22_Witness ==
    /\ query = "true" /\ ~debuggerEnabled /\ storage = "false"
    /\ ui # EmptyObj /\ ui.checked.events /\ ui.eventsDiv.heading = "Events:"
    /\ \E t \in 1..Len(triggers) : hooks[t] > 0
    /\ \E i \in 1..Len(objs) : objs[i].completed

\* Initialization ran without the scroll-trigger extension.
WithoutExtension == ui # EmptyObj /\ ui.markerDisabled

\* C23: the marker checkbox is disabled, with its tooltip, exactly when the
\* extension is absent at initialization; after such an initialization no
\* scan timer exists, no trigger is ever hooked and the trigger registry is
\* empty for the rest of the page load (also when the extension arrives
\* later), while the entry points are patched, the window's listeners, the
\* render timer and the keyboard listener are installed, no step of the
\* initialization failed, and a tracked construction gets its entry.
C23_WithoutExtension ==
    /\ [][ Initializing =>
             /\ ui'.markerDisabled = ~stPresent
             /\ ui'.markerTitle = (IF stPresent THEN "" ELSE "ScrollTrigger not available") ]_vars
    /\ [](WithoutExtension =>
            /\ ~scanTimer /\ activeScrollTriggers = EmptyObj
            /\ \A t \in 1..Len(hooks) : hooks[t] = 0
            /\ Patched /\ listeners /\ renderTimer /\ keydownListener /\ ~initError)
    /\ [][ ( /\ WithoutExtension
             /\ Len(objs') = Len(objs) + 1 /\ TrackedObj(objs'[Len(objs')]) )
           => Len(objs') \in Entries' ]_vars

\* C23 witness: initialization ran without the extension; the extension
\* arrived later and a trigger was created and moved, an animation is
\* tracked, a pointer event is recorded, and the trigger registry is empty.
C23_Witness ==
    /\ WithoutExtension /\ stPresent /\ debuggerEnabled
    /\ \E t \in 1..Len(triggers) : triggers[t].progress = 1000
    /\ activeAnimations # EmptyObj /\ "mouseX" \in DOMAIN eventData
    /\ activeScrollTriggers = EmptyObj

\* The events the window's listeners record: the tracked DOM events and the
\* click on the toggle button.
TrackedEvents == Events \cup { [type |-> "click", e |-> ButtonClick(b)] : b \in BOOLEAN }

\* The description of one event alone.
SnapshotOf(ev) == updateEventData(EmptyObj, ev.type, ev.e, TRUE)

\* A step in which a listener recorded an event.
Recorded == eventData' # eventData /\ eventData' # EmptyObj

\* C24 as stated: after a tracked event is recorded the event snapshot is
\* the description of that event alone: its type and its own fields, and
\* no field of an earlier event.
C24_MostRecentEventOnly ==
    [][ Recorded =>
          \E ev \in TrackedEvents :
              ev.type = eventData'.eventType /\ eventData' = SnapshotOf(ev) ]_vars

\* C24 amended: after a tracked event is recorded the snapshot's type and
\* every field that event carries (coordinates, key, scroll delta, target
\* label) are that event's; a field the event does not carry keeps the
\* value it had, which an earlier event recorded since the last clear.
C24_FieldsOfLatestCarrier ==
    [][ Recorded =>
          \E ev \in TrackedEvents :
              /\ ev.type = eventData'.eventType
              /\ \A f \in DOMAIN SnapshotOf(ev) :
                    f \in DOMAIN eventData' /\ eventData'[f] = SnapshotOf(ev)[f]
              /\ \A f \in DOMAIN eventData' \ DOMAIN SnapshotOf(ev) :
                    f \in DOMAIN eventData /\ eventData'[f] = eventData[f]
              /\ DOMAIN eventData \subseteq DOMAIN eventData' ]_vars

\* C24 witness: the latest event is a resize; the snapshot still holds the
\* key of an earlier keypress and the scroll delta of an earlier wheel event.
C24_Witness ==
    /\ eventData # EmptyObj /\ eventData.eventType = "resize"
    /\ eventData.eventTarget = "Window"
    /\ "lastKey" \in DOMAIN eventData /\ eventData.lastKey = "a"
    /\ "deltaY" \in DOMAIN eventData /\ eventData.deltaY = "100"

\* C25: the step in which the probe finds the library runs the whole
\* initialization, however many triggers exist: afterwards the entry points
\* are patched, the scan timer is installed if the extension is present,
\* the window's listeners, the render timer and the keyboard listener are
\* installed, and no exception ended it early.
C25_InitializationCompletes ==
    [][ Initializing =>
          /\ \A m \in Methods : gsapTable'[m] > 0
          /\ scanTimer' = stPresent
          /\ listeners' /\ renderTimer' /\ keydownListener'
          /\ ~initError' ]_vars

\* C26: whatever the scans, toggles and updates of a page load, every
\* trigger carries at most one set of the three hooks, so a notification
\* of a trigger recomputes its snapshot at most once.
C26_HookedAtMostOnce == \A t \in 1..Len(hooks) : hooks[t] <= 1

\* The nine fields of a trigger's snapshot.
SnapshotFields ==
    {"triggerElement", "scroller", "start", "end", "currentProgress", "scrubValue",
     "pinState", "isActive", "toggleActions"}

\* The snapshot that describes the page's trigger at the given progress.
Described(self) ==
    [ triggerElement |-> ".hero (+)", scroller |-> "Window", start |-> "100", end |-> "900",
      currentProgress |-> CASE self.progress = 0 -> "0.000" [] self.progress = 500 -> "0.500"
                            [] self.progress = 1000 -> "1.000",
      scrubValue |-> "0.5", pinState |-> "false",
      isActive |-> IF self.isActive THEN "true" ELSE "false",
      toggleActions |-> "play, pause, resume, reset" ]

\* C27: a notification of a hooked trigger while the shell stays enabled
\* leaves as its entry the complete nine-field record of the trigger's
\* state at the notification, whatever the entry was before (empty, or the
\* record of another state); and recomputing the snapshot of a trigger a
\* second time from the same state gives what the first recomputation gave.
C27_SnapshotRecomputed ==
    /\ [][ \A t \in 1..Len(triggers) :
             (Notified(t) /\ debuggerEnabled') =>
                /\ t \in DOMAIN activeScrollTriggers'
                /\ DOMAIN activeScrollTriggers'[t] = SnapshotFields
                /\ activeScrollTriggers'[t] = Described(triggers'[t]) ]_vars
    /\ [](\A t \in 1..Len(triggers) :
            LET once == updateSTProps(activeScrollTriggers, t, triggers[t], TRUE)
            IN /\ updateSTProps(once, t, triggers[t], TRUE) = once
               /\ once[t] = Described(triggers[t]))

\* C27 witness: a trigger that was registered a second time after a
\* disabling toggle holds, with the shell enabled again, the record of its
\* half-way state, in which it is active.
C27_Witness ==
    \E t \in DOMAIN activeScrollTriggers :
        /\ debuggerEnabled /\ hooks[t] = 2 /\ triggers[t].progress = 500
        /\ activeScrollTriggers[t] # EmptyObj
        /\ activeScrollTriggers[t].isActive = "true"
        /\ activeScrollTriggers[t].currentProgress = "0.500"

\* A step in which an update notification changed the animation registry
\* (construction and completion change objs, a toggle changes the flag).
AnimationUpdated ==
    /\ activeAnimations' # activeAnimations
    /\ objs' = objs /\ debuggerEnabled' = debuggerEnabled

\* The live-value keys of the properties a tween declared.
LiveKeys(o) == {CurrentKey(p) : p \in CoreTransformProps \cap DOMAIN VarsOf(o.args)}

\* C28: an update notification of a tracked tween changes, in the animation
\* registry, only the live values of that tween's entry, and only those of
\* the core properties the tween declared; the entries of the other tweens,
\* the other registries and the event snapshot stay as they are; and
\* every entry's static fields and target values are at all times the
\* values declared at construction.
C28_UpdateTouchesLiveValuesOnly ==
    /\ [][ AnimationUpdated =>
             /\ DOMAIN activeAnimations' = DOMAIN activeAnimations
             /\ \E id \in DOMAIN activeAnimations :
                   /\ \A j \in DOMAIN activeAnimations \ {id} :
                         activeAnimations'[j] = activeAnimations[j]
                   /\ DOMAIN activeAnimations'[id] = DOMAIN activeAnimations[id]
                   /\ \A k \in DOMAIN activeAnimations[id] \ {"current"} :
                         activeAnimations'[id][k] = activeAnimations[id][k]
                   /\ DOMAIN activeAnimations[id].current
                         \subseteq DOMAIN activeAnimations'[id].current
                   /\ DOMAIN activeAnimations'[id].current \subseteq LiveKeys(objs[id])
             /\ UNCHANGED <<activeTimelines, activeScrollTriggers, eventData>> ]_vars
    /\ [](\A id \in DOMAIN activeAnimations :
            LET declared == VarsOf(objs[id].args)
            IN \A k \in DOMAIN activeAnimations[id] \ {"current"} :
                  k \in DOMAIN declared /\ activeAnimations[id][k] = declared[k])

\* C28 witness: the entry of a tween to x = 100 in 2 s holds the live
\* value 50 of x next to its duration and its target, while the entry of
\* a 'from' tween holds no live value.
C28_Witness ==
    \E i, j \in DOMAIN activeAnimations :
        /\ objs[i].method = "to" /\ objs[j].method = "from"
        /\ activeAnimations[i].current = [current_x |-> 50]
        /\ activeAnimations[i].duration = 2 /\ activeAnimations[i].x = 100
        /\ activeAnimations[j].current = EmptyObj

\* The library notified tracked timeline id of a new playback state while
\* the shell is on.
TimelineNotified(id) ==
    /\ Len(objs') = Len(objs) /\ objs[id].kind = "timeline"
    /\ Invoked(objs[id], "onUpdate") = "debugger"
    /\ "state" \in DOMAIN objs'[id]
    /\ "state" \notin DOMAIN objs[id] \/ objs'[id].state # objs[id].state
    /\ debuggerEnabled

\* C29: after an update notification of a tracked timeline while enabled
\* the entry's status is 'paused' exactly when the timeline is paused
\* (reversed or not), 'reversed' exactly when it is reversed and not
\* paused, 'playing' otherwise, and the entry is the six-field record of
\* the timeline's state at the notification, whatever it was before.
C29_TimelineStatus ==
    [][ \A id \in 1..Len(objs) :
          TimelineNotified(id) =>
             LET t == objs'[id].state
                 props == activeTimelines'[id]
             IN /\ id \in DOMAIN activeTimelines'
                /\ DOMAIN props = {"status", "currentTime", "timeScale", "totalDuration",
                                   "positionParametersUsed", "callbacks"}
                /\ props.status = "paused" <=> t.paused
                /\ props.status = "reversed" <=> (t.reversed /\ ~t.paused)
                /\ props.status = "playing" <=> (~t.reversed /\ ~t.paused)
                /\ props.currentTime = "1.50s" /\ props.timeScale = "1.00"
                /\ props.totalDuration = "2.00s"
                /\ props.positionParametersUsed = t.relativePositions
                /\ props.callbacks = [onComplete |-> TRUE, onStart |-> TRUE,
                                      onReverseComplete |-> TRUE] ]_vars

\* C29 witness: a timeline that is paused and reversed has the status
\* 'paused' in its entry.
C29_Witness ==
    \E id \in DOMAIN activeTimelines :
        /\ debuggerEnabled /\ "state" \in DOMAIN objs[id]
        /\ objs[id].state.paused /\ objs[id].state.reversed
        /\ activeTimelines[id] # EmptyObj /\ activeTimelines[id].status = "paused"

\* A step in which a section checkbox changed.
CheckboxChanged == ui # EmptyObj /\ ui' # EmptyObj /\ ui'.checked # ui.checked

\* What a render tick writes is what the registries and the event snapshot
\* hold, section by section.
Refreshed(u) ==
    /\ DOMAIN u.animationDiv.blocks = DOMAIN activeAnimations
    /\ \A id \in DOMAIN activeAnimations :
          \A k \in DOMAIN activeAnimations[id].current :
             formatProperty(k, activeAnimations[id].current[k]) \in u.animationDiv.blocks[id]
    /\ DOMAIN u.timelineDiv.blocks = DOMAIN activeTimelines
    /\ DOMAIN u.scrollTriggerDiv.blocks = DOMAIN activeScrollTriggers
    /\ u.eventsDiv.lines = IF eventData = EmptyObj THEN {"No active events to track."}
                           ELSE {formatProperty(k, eventData[k]) : k \in DOMAIN eventData}

\* C30: a change of one section checkbox sets that section's display from
\* the checkbox's new state (shown when checked, hidden when not) and
\* leaves the display of the other three sections, the content of all four,
\* the button, the flag, the persisted value, the three registries and the
\* event snapshot as they were; and a render tick while enabled rewrites
\* all four sections from the current data, hidden or not.
C30_CheckboxTouchesOneSection ==
    /\ [][ CheckboxChanged =>
             /\ \E s \in MenuSections :
                   /\ ui'.checked[s] = ~ui.checked[s]
                   /\ SectionShown(ui', s) = ui'.checked[s]
                   /\ \A x \in MenuSections \ {s} :
                         /\ ui'.checked[x] = ui.checked[x]
                         /\ ui'.sectionDisplay[x] = ui.sectionDisplay[x]
             /\ Sections(ui') = Sections(ui)
             /\ ui'.buttonText = ui.buttonText /\ ui'.display = ui.display
             /\ UNCHANGED <<debuggerEnabled, storage, activeAnimations, activeTimelines,
                            activeScrollTriggers, eventData>> ]_vars
    /\ [][ (Rendering /\ Sections(ui') # Sections(ui)) => Refreshed(ui') ]_vars

\* C30 witness: the animations section is hidden, the other three are shown
\* (the events section after its box was checked), and the hidden section
\* holds the live value of the tracked tween as last rendered.
C30_Witness ==
    /\ ui # EmptyObj /\ debuggerEnabled
    /\ ~ui.checked.animations /\ ~SectionShown(ui, "animations")
    /\ ui.checked.events /\ ui.sectionDisplay.events = "block"
    /\ SectionShown(ui, "timelines") /\ SectionShown(ui, "scrolltriggers")
    /\ \E id \in DOMAIN activeAnimations :
          /\ id \in DOMAIN ui.animationDiv.blocks
          /\ "current_x: 50.00" \in ui.animationDiv.blocks[id]

\* C31: monitorScrollTrigger applied to a trigger that has a registry entry
\* changes nothing: the entry keeps its snapshot (also an empty or an
\* outdated one), the trigger's hook count and the registry's size stay;
\* and a scan tick leaves every trigger that has an entry as it is.
C31_RegisteredTriggerSkipped ==
    /\ [](\A t \in DOMAIN activeScrollTriggers :
            LET s == [reg |-> activeScrollTriggers, hooks |-> hooks]
                after == monitorScrollTrigger(s, t, triggers[t], debuggerEnabled)
            IN /\ after.reg[t] = activeScrollTriggers[t]
               /\ after.hooks[t] = hooks[t]
               /\ Cardinality(DOMAIN after.reg) = Cardinality(DOMAIN activeScrollTriggers)
               /\ after = s)
    /\ [][ Scanned =>
             \A t \in DOMAIN activeScrollTriggers :
                /\ t \in DOMAIN activeScrollTriggers'
                /\ activeScrollTriggers'[t] = activeScrollTriggers[t]
                /\ hooks'[t] = hooks[t] ]_vars

\* C31 witness: with the shell enabled, one trigger has an entry that is
\* still empty (it was registered while the shell was disabled), next to
\* a trigger whose entry holds a snapshot.
C31_Witness ==
    /\ debuggerEnabled
    /\ \E t, u \in DOMAIN activeScrollTriggers :
          /\ activeScrollTriggers[t] = EmptyObj /\ hooks[t] > 0
          /\ activeScrollTriggers[u] # EmptyObj

\* The entries a registry holds before and after a step have the same
\* snapshot.
SnapshotsKept(reg, regAfter) ==
    \A id \in DOMAIN reg \cap DOMAIN regAfter : regAfter[id] = reg[id]

\* C32: after initialization, while the enabled flag is false the event
\* snapshot is empty, and a step that leaves the flag false (a DOM event,
\* an update notification, a trigger notification, a scan tick, a
\* construction, a completion) changes neither the event snapshot nor the
\* snapshot of any entry a registry holds.
C32_DisabledWritesNothing ==
    /\ []((ui # EmptyObj /\ ~debuggerEnabled) => eventData = EmptyObj)
    /\ [][ (ui # EmptyObj /\ ~debuggerEnabled /\ ~debuggerEnabled') =>
             /\ eventData' = eventData
             /\ SnapshotsKept(activeAnimations, activeAnimations')
             /\ SnapshotsKept(activeTimelines, activeTimelines')
             /\ SnapshotsKept(activeScrollTriggers, activeScrollTriggers') ]_vars

\* C32 witness: the shell is disabled with the window's listeners
\* installed; a tween and a timeline constructed since, and a trigger that
\* was scanned since and has moved to the end, have entries without any
\* live data, and the event snapshot is empty.
C32_Witness ==
    /\ ~debuggerEnabled /\ listeners /\ eventData = EmptyObj
    /\ \E i \in DOMAIN activeAnimations : activeAnimations[i].current = EmptyObj
    /\ \E j \in DOMAIN activeTimelines : activeTimelines[j] = EmptyObj
    /\ \E t \in DOMAIN activeScrollTriggers :
          activeScrollTriggers[t] = EmptyObj /\ triggers[t].progress = 1000

\* The string form of the enabled flag.
FlagString == IF debuggerEnabled THEN "true" ELSE "false"

\* C33: in every state of a load whose URL carried the parameter, and
\* after every toggle, the persisted value is the string form of the flag;
\* whenever the persisted value is 'true' or 'false' it is the flag's; and
\* a reload without the parameter starts with the flag the page was left
\* with.
C33_PersistedFollowsFlag ==
    /\ [](query # NoValue => storage = FlagString)
    /\ [](storage \in {"true", "false"} => storage = FlagString)
    /\ [][ (loads' = loads /\ debuggerEnabled' # debuggerEnabled)
           => storage' = (IF debuggerEnabled' THEN "true" ELSE "false") ]_vars
    /\ [][ (loads' = loads + 1 /\ query' = NoValue)
           => debuggerEnabled' = debuggerEnabled ]_vars

\* C33 witness: a load enabled by the parameter was toggled off; the
\* reload without the parameter came out disabled, 'false' being persisted,
\* and has passed DOMContentLoaded without scheduling a probe.
C33_Witness ==
    /\ loads = 2 /\ prevQuery = "true" /\ query = NoValue
    /\ ~debuggerEnabled /\ storage = "false" /\ domLoaded /\ ~probeTimer

\* The page load came out of the gate disabled: the script returned early.
DisabledLoad == ~debuggerEnabled /\ ui = EmptyObj

\* C34: a reload without the parameter of a page that was toggled off
\* comes out disabled; a load that came out disabled installs nothing
\* (no DOMContentLoaded listener, probe, panel, patch, timer or listener),
\* so no step within it, the keyboard chord included, changes the flag; the
\* flag becomes true again only by a load whose parameter is 'true'.
C34_DisabledLoadStaysDisabled ==
    /\ [][ (ui # EmptyObj /\ ~debuggerEnabled /\ loads' = loads + 1 /\ query' = NoValue)
           => (~debuggerEnabled' /\ ~domListener' /\ storage' = "false") ]_vars
    /\ [](DisabledLoad => (~domListener /\ NothingInitialized))
    /\ [][ (DisabledLoad /\ debuggerEnabled') => (loads' = loads + 1 /\ query' = "true") ]_vars

\* C34 witness: the reload, without the parameter, of a page that was
\* toggled off: DOMContentLoaded has fired, the library and the extension
\* are there and a trigger exists, and nothing of the debugger does.
C34_Witness ==
    /\ loads = 2 /\ prevQuery = "true" /\ query = NoValue /\ storage = "false"
    /\ DisabledLoad /\ domLoaded /\ gsapPresent /\ stPresent /\ triggers # <<>>
    /\ ~keydownListener /\ ~probeTimer

\* C35: once the panel exists, each of the four sections is shown exactly
\* when its checkbox is checked, the state right after the panel's creation
\* included.
C35_SectionShownIffChecked ==
    ui # EmptyObj => \A s \in MenuSections : SectionShown(ui, s) = ui.checked[s]

\* C36: the extension's presence is read once, by the probe attempt that
\* finds the library. When it is absent at that attempt, that attempt
\* disables the marker control and installs no scan timer, and no later step
\* of the page load, the extension's arrival included, enables the control,
\* installs the timer, hooks a trigger or gives the trigger registry an entry.
C36_ExtensionSampledOnce ==
    /\ [][ (Initializing /\ ~stPresent)
           => (ui'.markerDisabled /\ ~scanTimer' /\ activeScrollTriggers' = EmptyObj) ]_vars
    /\ [][ (WithoutExtension /\ loads' = loads)
           => /\ WithoutExtension' /\ ~scanTimer'
              /\ activeScrollTriggers' = EmptyObj
              /\ \A t \in 1..Len(hooks') : hooks'[t] = 0 ]_vars
    /\ [][ (ui # EmptyObj /\ stPresent' # stPresent)
           => (ui' = ui /\ scanTimer' = scanTimer
               /\ activeScrollTriggers' = activeScrollTriggers /\ hooks' = hooks) ]_vars

\* C36 witness: the library was found while the extension was absent; the
\* extension arrived afterwards and a trigger was created and has moved; the
\* marker control is disabled, there is no scan timer and no trigger entry.
C36_Witness ==
    /\ WithoutExtension /\ stPresent /\ ~scanTimer
    /\ triggers # <<>> /\ triggers[1].progress # 0
    /\ hooks[1] = 0 /\ activeScrollTriggers = EmptyObj

\* The objects constructed through an entry point that was not patched yet.
BeforePatch == {i \in 1..Len(objs) : objs[i].depth = 0}

\* C37: an animation or timeline constructed before the patch never has a
\* registry entry, whatever it does afterwards, whereas a trigger that exists
\* when the initialization runs is picked up: it has its entry when the
\* initialization finishes, or the scan that will register it is installed.
C37_OnlyTriggersPickedUpLater ==
    /\ [](BeforePatch \cap Entries = {})
    /\ [][ (Initializing /\ stPresent)
           => \A t \in 1..Len(triggers) :
                 t \in DOMAIN activeScrollTriggers' \/ scanTimer' ]_vars

\* A tracked object that has not completed has no entry. Only the clearing
\* done by a disabling toggle takes such an entry away, so in a state like
\* this the shell has been disabled earlier in the page load.
ClearedBefore ==
    \E j \in 1..Len(objs) : Tracked(j) /\ ~objs[j].completed /\ j \notin Entries

\* C38: registration and removal do not look at the flag: a tracked object
\* constructed while the shell is disabled gets its entry, a tracked object
\* that signals completion while the shell is disabled has no entry
\* afterwards, and so, once the shell has been disabled and enabled again,
\* no object that has completed has an entry.
C38_RegistryIgnoresFlag ==
    /\ [][ ( /\ ~debuggerEnabled /\ ui # EmptyObj
             /\ Len(objs') = Len(objs) + 1 /\ TrackedObj(objs'[Len(objs')]) )
           => Len(objs') \in Entries' ]_vars
    /\ [][ (~debuggerEnabled /\ ui # EmptyObj)
           => \A i \in 1..Len(objs) :
                 (Tracked(i) /\ ~objs[i].completed /\ objs'[i].completed)
                    => i \notin Entries' ]_vars
    /\ []( (debuggerEnabled /\ ClearedBefore)
           => \A i \in 1..Len(objs) : objs[i].completed => i \notin Entries )
====
